---- MODULE Spec2Model ----
(***************************************************************************)
(* The pizza-kitchen scheduling engine of src/unnamed/part_000 (the        *)
(* revision with StageTypes 1..5, ready flags and the zero-time return).   *)
(*                                                                         *)
(* Execution model (Node.js): one thread.  A timer callback is a macrotask *)
(* and runs only when the microtask queue is empty, so it never runs while *)
(* a listener's scan loop is suspended at an await.  EventEmitter.emit     *)
(* calls the listener synchronously; an async listener runs synchronously  *)
(* up to the end of its first attemptToProcess call, and each later loop   *)
(* iteration is a microtask.  The scan loops of the two listeners started  *)
(* by one completion interleave; the model allows every interleaving.      *)
(* Time is logical: the clock jumps to the due time of the timer fired.    *)
(*                                                                         *)
(* The variable revision selects the source that runs: "part_000" (the     *)
(* default), "part_001" (src/unnamed/part_001: no zero-time return) or     *)
(* "script.js" (src/script.js).  script.js numbers its stages 0..4; the    *)
(* model keeps the labels 1..5 for all revisions, the code using stage     *)
(* numbers only as keys and in equality tests.                             *)
(***************************************************************************)
EXTENDS Integers, Sequences, FiniteSets, TLC

\* ---- bounds of the model ----
\* The batch has 1..MaxOrders orders.  Batches of up to FullRangeOrders orders
\* take every toppings count; larger batches take the counts of SampleToppings.
MaxOrders == 4
FullRangeOrders == 2
SampleToppings == {0, 1, 4, 13}
\* getNextStage is called directly on every stage number of 0..MaxProbeArg.
MaxProbeArg == 60
\* The batch in which an order waits for a topping worker (3 of them, fed by
\* 2 dough workers) beside an earlier order
QueueOrders == 5

\* ---- program constants ----
MAX_TOPPINGS_COUNT == 14
DOUGHCHEF == 1
TOPPINGCHEF == 2
OVEN == 3
WAITER == 4
DONE == 5
MsPerSecond == 1000
\* script.js, initOrders: for (let i = 1; i < 15; i++)
ScriptOrderCount == 14

PrepStages == {DOUGHCHEF, TOPPINGCHEF, OVEN, WAITER}
StageTypes == PrepStages \cup {DONE}

\* new PrepConfig(stageType, secondsToPrep): the seconds given to each config
secondsToPrep(s) ==
    CASE s = DOUGHCHEF -> 7
      [] s = TOPPINGCHEF -> 4
      [] s = OVEN -> 10
      [] s = WAITER -> 5

\* PrepConfig constructor: this.msToPrep = secondsToPrep * 1000
msToPrep(s) == secondsToPrep(s) * MsPerSecond

\* onScriptStart: initPreps(cl, count) for the four stages
PrepCount(s) ==
    CASE s = DOUGHCHEF -> 2
      [] s = TOPPINGCHEF -> 3
      [] s = OVEN -> 1
      [] s = WAITER -> 2

\* allPreps[stage]: the workers <<stage, id>>, ids 1..count in array order
allPreps(s) == [i \in 1..PrepCount(s) |-> <<s, i>>]
Preps == UNION {{<<s, i>> : i \in 1..PrepCount(s)} : s \in PrepStages}

\* getRandomToppingsCount: floor(random * 14), an integer of 0..13
ToppingsCounts == 0..(MAX_TOPPINGS_COUNT - 1)
ToppingsChoices(n) == IF n <= FullRangeOrders THEN ToppingsCounts
                      ELSE SampleToppings \cap ToppingsCounts

NoScan == [kind |-> "none"]
NoProbe == [arg |-> 0, called |-> FALSE, throws |-> FALSE, value |-> 0]
NoPrep == <<0, 0>>

VARIABLES
    ordersSize,     \* let ordersSize
    toppingsCount,  \* order.toppingsCount
    startTime,      \* order.startTime
    stage,          \* order.stage
    ready,          \* order.ready
    pready,         \* prepStage.ready, per worker <<stage, id>>
    orders,         \* the registry: orders[stage] = ids of the orders filed there
    timers,         \* pending setTimeout callbacks, one per started pairing
    timerSeq,       \* number of timers created so far
    now,            \* logical clock, ms since START_TIME
    log,            \* console.log events in emission order
    seedPos,        \* initOrderProcessing: position in its for-in loop
    orderScan,      \* suspended scan loop of freeOrderListener, or NoScan
    stageScan,      \* suspended scan loop of freeStageListener, or NoScan
    attempts,       \* attemptToProcess calls made by the last step, in order
    trig,           \* emits made by the last step, with the flags seen at emit
    thrown,         \* an Error was thrown inside a timer callback
    exited,         \* the process has ended on the unhandled rejection
    seedHist,       \* what initOrderProcessing has done: the orders it called
                    \* freeOrderListener for, and the attempts of those calls
    revision,       \* the source revision that is running
    probe           \* the argument and result of a direct getNextStage call

vars == <<ordersSize, toppingsCount, startTime, stage, ready, pready, orders,
          timers, timerSeq, now, log, seedPos, orderScan, stageScan, attempts,
          trig, thrown, exited, seedHist, revision, probe>>

OrderIds == 1..ordersSize

\* ---- helpers ----
Min(S) == CHOOSE x \in S : \A y \in S : x <= y

RECURSIVE SortedKeys(_)
\* for (let i in obj) over integer-like keys: ascending numeric order
SortedKeys(S) == IF S = {} THEN <<>>
                 ELSE <<Min(S)>> \o SortedKeys(S \ {Min(S)})

RECURSIVE SumCard(_, _)
SumCard(f, D) == IF D = {} THEN 0
                 ELSE LET d == CHOOSE x \in D : TRUE
                      IN Cardinality(f[d]) + SumCard(f, D \ {d})

\* Math.ceil(a / 2) for a natural number a
CeilHalf(a) == (a + 1) \div 2

\* The mutable program state as one record, so that the statements of a
\* handler can be composed in program order.  freed collects the parties the
\* running handler has marked ready so far and threw tells that it has thrown
\* (both live for one handler only).
Cur == [stage |-> stage, ready |-> ready, pready |-> pready, orders |-> orders,
        timers |-> timers, timerSeq |-> timerSeq, now |-> now, log |-> log,
        attempts |-> <<>>, trig |-> <<>>, thrown |-> thrown, freed |-> {},
        threw |-> FALSE]

Commit(st) ==
    /\ stage' = st.stage
    /\ ready' = st.ready
    /\ pready' = st.pready
    /\ orders' = st.orders
    /\ timers' = st.timers
    /\ timerSeq' = st.timerSeq
    /\ now' = st.now
    /\ log' = st.log
    /\ attempts' = st.attempts
    /\ trig' = st.trig
    /\ thrown' = st.thrown

Event(type, o, p, t) == [type |-> type, order |-> o, prep |-> p, time |-> t]

\* ---- PrepStage / ToppingChef ----

calculateProcessingTime_NoOverride(s, o) == msToPrep(s)

\* PrepStage.calculateProcessingTime, overridden by ToppingChef
calculateProcessingTime(s, o) ==
    IF s = TOPPINGCHEF
    THEN CeilHalf(msToPrep(TOPPINGCHEF) * toppingsCount[o])
    ELSE msToPrep(s)

getNextStage_SkipsWaiter(s) ==
    CASE s = DOUGHCHEF -> [throws |-> FALSE, value |-> TOPPINGCHEF]
      [] s = TOPPINGCHEF -> [throws |-> FALSE, value |-> OVEN]
      [] s = OVEN -> [throws |-> FALSE, value |-> DONE]
      [] s = WAITER -> [throws |-> FALSE, value |-> DONE]
      [] OTHER -> [throws |-> TRUE, value |-> s]

\* PrepStage.getNextStage: the stage returned, or throws (Error 'invalid stage')
getNextStage(s) ==
    CASE s = DOUGHCHEF -> [throws |-> FALSE, value |-> TOPPINGCHEF]
      [] s = TOPPINGCHEF -> [throws |-> FALSE, value |-> OVEN]
      [] s = OVEN -> [throws |-> FALSE, value |-> WAITER]
      [] s = WAITER -> [throws |-> FALSE, value |-> DONE]
      [] OTHER -> [throws |-> TRUE, value |-> s]

\* script.js, PrepStage.getNextStage: the label of the third case is
\* StageTypes.Oven, which is undefined, so no stage number selects it and the
\* oven stage falls to the default, as DONE does.  (case null: no order's stage
\* is null.)
Script_getNextStage(s) ==
    CASE s = DOUGHCHEF -> [throws |-> FALSE, value |-> TOPPINGCHEF]
      [] s = TOPPINGCHEF -> [throws |-> FALSE, value |-> OVEN]
      [] s = WAITER -> [throws |-> FALSE, value |-> DONE]
      [] OTHER -> [throws |-> TRUE, value |-> s]

\* ---- attemptToProcess ----

canProcess_NoOrderReady(st, o, p) == st.pready[p] /\ st.stage[o] = p[1]

canProcess_NoPrepReady(st, o, p) == st.ready[o] /\ st.stage[o] = p[1]

canProcess_NoStageTest(st, o, p) == st.ready[o] /\ st.pready[p]

\* const canProcess = order.isReady() && prepStage.isReady() &&
\*                    order.getStage() === prepStage.getStage()
canProcess(st, o, p) == st.ready[o] /\ st.pready[p] /\ st.stage[o] = p[1]

zeroTimeReturn_Never(time) == FALSE

\* if (!time) return false
zeroTimeReturn(time) == time = 0

\* The record of one attemptToProcess call: its arguments, what it computed,
\* what it resolved to, and whether it left flags, stages, registry and timers
\* as they were (pre, post: the program state before and after the call).
\* startedBefore is filled in by the calling listener: the number of pairings
\* its invocation had started before this call.
Attempt(pre, post, o, p, can, time, ret) ==
    [order |-> o, prep |-> p, canProcess |-> can, time |-> time, ret |-> ret,
     orderReadyBefore |-> pre.ready[o], prepReadyBefore |-> pre.pready[p],
     orderStage |-> pre.stage[o],
     orderReadyAfter |-> post.ready[o], prepReadyAfter |-> post.pready[p],
     scheduled |-> post.timers # pre.timers,
     startedBefore |-> 0,
     frame |-> /\ post.ready = pre.ready /\ post.pready = pre.pready
               /\ post.stage = pre.stage /\ post.orders = pre.orders
               /\ post.timers = pre.timers]

\* The value the async function resolves to: false on the two early returns,
\* undefined after `await setTimeout(...)` (the body ends without a return;
\* the `return true` belongs to the timer callback).
attemptToProcess(st, o, p) ==
    LET can == canProcess(st, o, p)
        time == calculateProcessingTime(p[1], o)
    IN IF ~can
       THEN [ret |-> "false",
             st |-> [st EXCEPT !.attempts =
                        Append(@, Attempt(st, st, o, p, FALSE, 0, "false"))]]
       ELSE IF zeroTimeReturn(time)
       THEN [ret |-> "false",
             st |-> [st EXCEPT !.attempts =
                        Append(@, Attempt(st, st, o, p, TRUE, time, "false"))]]
       ELSE LET s1 == [st EXCEPT
                        !.pready[p] = FALSE,
                        !.ready[o] = FALSE,
                        !.log = Append(@, Event("started", o, p, time)),
                        !.timers = @ \cup {[id |-> st.timerSeq + 1, order |-> o,
                                            prep |-> p, delay |-> time,
                                            due |-> st.now + time]},
                        !.timerSeq = @ + 1]
            IN [ret |-> "undefined",
                st |-> [s1 EXCEPT !.attempts =
                          Append(@, Attempt(st, s1, o, p, TRUE, time, "undefined"))]]

\* part_001, attemptToProcess: preProcess on both parties, then the time, then
\* setTimeout with it, a time of 0 included.
Part001_attemptToProcess(st, o, p) ==
    IF ~canProcess(st, o, p)
    THEN [ret |-> "false",
          st |-> [st EXCEPT !.attempts =
                     Append(@, Attempt(st, st, o, p, FALSE, 0, "false"))]]
    ELSE LET time == calculateProcessingTime(p[1], o)
             s1 == [st EXCEPT
                     !.pready[p] = FALSE,
                     !.ready[o] = FALSE,
                     !.log = Append(@, Event("started", o, p, time)),
                     !.timers = @ \cup {[id |-> st.timerSeq + 1, order |-> o,
                                         prep |-> p, delay |-> time,
                                         due |-> st.now + time]},
                     !.timerSeq = @ + 1]
         IN [ret |-> "undefined",
             st |-> [s1 EXCEPT !.attempts =
                       Append(@, Attempt(st, s1, o, p, TRUE, time, "undefined"))]]

\* script.js, attemptToProcess: the statements of part_001's
Script_attemptToProcess(st, o, p) == Part001_attemptToProcess(st, o, p)

\* attemptToProcess of the revision that runs
Rev_attemptToProcess(st, o, p) ==
    CASE revision = "part_000" -> attemptToProcess(st, o, p)
      [] revision = "part_001" -> Part001_attemptToProcess(st, o, p)
      [] revision = "script.js" -> Script_attemptToProcess(st, o, p)

\* JavaScript truthiness of the values attemptToProcess resolves to
Truthy(r) == r = "true"

\* ---- registry and progress ----

\* logIfDoneProcessingAll
logIfDoneProcessingAll(st) ==
    IF Cardinality(st.orders[DONE]) = ordersSize
    THEN [st EXCEPT !.log = Append(@, Event("alldone", 0, NoPrep, st.now))]
    ELSE st

moveOrder_NoDelete(st, o, priorStage) ==
    logIfDoneProcessingAll([st EXCEPT !.orders[st.stage[o]] = @ \cup {o}])

moveOrder_NoInsert(st, o, priorStage) ==
    logIfDoneProcessingAll([st EXCEPT !.orders[priorStage] = @ \ {o}])

\* moveOrder(order, priorStage): delete, insert under the order's stage, log
moveOrder(st, o, priorStage) ==
    LET s1 == [st EXCEPT !.orders[priorStage] = @ \ {o}]
        s2 == [s1 EXCEPT !.orders[s1.stage[o]] = @ \cup {o}]
    IN logIfDoneProcessingAll(s2)

logIfDoneProcessing_AtWaiter(st, o) ==
    IF st.stage[o] >= WAITER
    THEN [st EXCEPT !.log = Append(@, Event("done", o, NoPrep, st.now - startTime[o]))]
    ELSE st

\* Order.logIfDoneProcessing
logIfDoneProcessing(st, o) ==
    IF st.stage[o] = DONE
    THEN [st EXCEPT !.log = Append(@, Event("done", o, NoPrep, st.now - startTime[o]))]
    ELSE st

\* ---- listeners ----

\* The listener's note on the call it just made
NoteCaller(st, scan) ==
    [st EXCEPT !.attempts[Len(st.attempts)].startedBefore = scan.started]

\* The loop variable after one iteration: the scan ends when the awaited value
\* is truthy or the keys are used up.
Advance(scan, r, last) ==
    IF Truthy(r.ret) \/ scan.next = last
    THEN NoScan
    ELSE [scan EXCEPT !.next = @ + 1,
                      !.started = @ + (IF r.ret = "false" THEN 0 ELSE 1)]

\* One iteration of freeOrderListener's loop over allPreps[stage], then the
\* loop's exit test; scan.next is the array position of the worker to try.
freeOrderListenerStep(st, scan) ==
    LET prepsAtStage == allPreps(scan.stage)
        r == Rev_attemptToProcess(st, scan.order, prepsAtStage[scan.next])
    IN [st |-> NoteCaller(r.st, scan),
        scan |-> Advance(scan, r, Len(prepsAtStage))]

\* freeOrderListener up to its first await
freeOrderListener(st, o) ==
    IF st.stage[o] = DONE
    THEN [st |-> st, scan |-> NoScan]
    ELSE freeOrderListenerStep(st,
            [kind |-> "order", order |-> o, stage |-> st.stage[o], next |-> 1,
             started |-> 0, seeding |-> FALSE])

\* One iteration of freeStageListener's loop over the keys of orders[stage]
freeStageListenerStep(st, scan) ==
    LET r == Rev_attemptToProcess(st, scan.keys[scan.next], scan.prep)
    IN [st |-> NoteCaller(r.st, scan),
        scan |-> Advance(scan, r, Len(scan.keys))]

freeStageListener_ScansNothing(st, p) == [st |-> st, scan |-> NoScan]

\* freeStageListener up to its first await
freeStageListener(st, p) ==
    LET keys == SortedKeys(st.orders[p[1]])
    IN IF keys = <<>>
       THEN [st |-> st, scan |-> NoScan]
       ELSE freeStageListenerStep(st,
               [kind |-> "stage", prep |-> p, keys |-> keys, next |-> 1,
                started |-> 0])

\* Processor.enableReady, on an order and on a worker
enableReadyOrder(st, o) ==
    [st EXCEPT !.ready[o] = TRUE, !.freed = @ \cup {<<"order", o>>}]

enableReadyPrep(st, p) ==
    [st EXCEPT !.pready[p] = TRUE, !.freed = @ \cup {<<"prep", p>>}]

\* this.emit(name, ...): the record of the emit, with the ready flags at that
\* moment and whether the handler had already marked each party ready
Emitted(st, name, o, p) ==
    [st EXCEPT !.trig = Append(@, [event |-> name, order |-> o, prep |-> p,
                                   orderReady |-> st.ready[o],
                                   prepReady |-> st.pready[p],
                                   orderFreed |-> <<"order", o>> \in st.freed,
                                   prepFreed |-> <<"prep", p>> \in st.freed])]

\* Order.postProcess, called by the timer callback of the pairing (o, p).
\* A throw of getNextStage leaves the method before anything else changes.
OrderPostProcess(st, o, p) ==
    LET priorStage == st.stage[o]
        nxt == getNextStage(priorStage)
    IN IF nxt.throws
       THEN [st |-> [st EXCEPT !.thrown = TRUE, !.threw = TRUE], scan |-> NoScan]
       ELSE LET s1 == [st EXCEPT !.stage[o] = nxt.value]
                s2 == logIfDoneProcessing(s1, o)
                s3 == moveOrder(s2, o, priorStage)
                s4 == enableReadyOrder(s3, o)
            IN freeOrderListener(Emitted(s4, "free_order", o, p), o)

\* script.js, moveOrder as Order.postProcess calls it, for an order that has
\* just reached DONE: the delete, then the store into orders[StageTypes.DONE],
\* which onScriptStart never creates: a TypeError.
Script_moveOrder(st, o, priorStage) ==
    [st EXCEPT !.orders[priorStage] = @ \ {o}, !.thrown = TRUE, !.threw = TRUE]

\* script.js, freeOrderListener up to its first await: no DONE test; a for-in
\* over allPreps[DONE], which is undefined, runs no iteration.
Script_freeOrderListener(st, o) ==
    IF st.stage[o] \notin PrepStages
    THEN [st |-> st, scan |-> NoScan]
    ELSE freeOrderListenerStep(st,
            [kind |-> "order", order |-> o, stage |-> st.stage[o], next |-> 1,
             started |-> 0, seeding |-> FALSE])

\* script.js, Order.postProcess: ready first, then the stage; the registry is
\* touched only when the order has reached DONE, and then nothing is emitted.
Script_OrderPostProcess(st, o, p) ==
    LET s1 == enableReadyOrder(st, o)
        priorStage == s1.stage[o]
        nxt == Script_getNextStage(priorStage)
    IN IF nxt.throws
       THEN [st |-> [s1 EXCEPT !.thrown = TRUE, !.threw = TRUE], scan |-> NoScan]
       ELSE LET s2 == [s1 EXCEPT !.stage[o] = nxt.value]
            IN IF s2.stage[o] = DONE
               THEN [st |-> Script_moveOrder(s2, o, priorStage), scan |-> NoScan]
               ELSE Script_freeOrderListener(Emitted(s2, "free_order", o, p), o)

\* Order.postProcess of the revision that runs (part_001's has the statements
\* of part_000's)
Rev_OrderPostProcess(st, o, p) ==
    IF revision = "script.js" THEN Script_OrderPostProcess(st, o, p)
    ELSE OrderPostProcess(st, o, p)

\* freeOrderListener of the revision that runs
Rev_freeOrderListener(st, o) ==
    IF revision = "script.js" THEN Script_freeOrderListener(st, o)
    ELSE freeOrderListener(st, o)

PrepPostProcess_EmitFirst(st, o, p) ==
    LET r == freeStageListener(Emitted(st, "free_stage", o, p), p)
    IN [st |-> enableReadyPrep(r.st, p), scan |-> r.scan]

PrepPostProcess_NoEnable(st, o, p) ==
    freeStageListener(Emitted(st, "free_stage", o, p), p)

\* PrepStage.postProcess
PrepPostProcess(st, o, p) ==
    LET s1 == enableReadyPrep(st, p)
    IN freeStageListener(Emitted(s1, "free_stage", o, p), p)

\* ---- the specification ----

\* The state after onScriptStart() and initOrders(n), toppings counts apart
Fresh(n) ==
    /\ ordersSize = n
    /\ startTime = [o \in 1..n |-> 0]
    /\ stage = [o \in 1..n |-> DOUGHCHEF]
    /\ ready = [o \in 1..n |-> TRUE]
    /\ pready = [p \in Preps |-> TRUE]
    /\ orders = [s \in StageTypes |-> IF s = DOUGHCHEF THEN 1..n ELSE {}]
    /\ timers = {}
    /\ timerSeq = 0
    /\ now = 0
    /\ log = <<>>
    /\ seedPos = 1
    /\ orderScan = NoScan
    /\ stageScan = NoScan
    /\ attempts = <<>>
    /\ trig = <<>>
    /\ thrown = FALSE
    /\ exited = FALSE
    /\ seedHist = [calls |-> <<>>, attempts |-> 0]

Init ==
    /\ \E n \in 1..MaxOrders :
          /\ Fresh(n)
          /\ toppingsCount \in [1..n -> ToppingsChoices(n)]
    /\ revision = "part_000"
    /\ probe = NoProbe

Static == UNCHANGED <<ordersSize, toppingsCount, startTime, revision, probe>>

ordersAtInitStage_SkipsFirst == Tail(SortedKeys(orders[DOUGHCHEF]))

\* const ordersAtInitStage = orders[StageTypes.DOUGHCHEF], in for-in order
ordersAtInitStage == SortedKeys(orders[DOUGHCHEF])

\* initOrderProcessing: the next iteration of its loop, which calls
\* freeOrderListener and awaits it (so it waits for the previous scan to end)
initOrderProcessing ==
    /\ ~exited
    /\ orderScan = NoScan
    /\ seedPos <= Len(ordersAtInitStage)
    /\ \E r \in {Rev_freeOrderListener(Cur, ordersAtInitStage[seedPos])} :
          /\ Commit(r.st)
          /\ orderScan' = IF r.scan = NoScan THEN NoScan
                          ELSE [r.scan EXCEPT !.seeding = TRUE]
          /\ seedHist' = [calls |-> Append(seedHist.calls, ordersAtInitStage[seedPos]),
                          attempts |-> seedHist.attempts + Len(r.st.attempts)]
    /\ seedPos' = seedPos + 1
    /\ UNCHANGED <<stageScan, exited>>
    /\ Static

\* freeOrderListener resumed after an await: its next loop iteration
freeOrderListenerResume ==
    /\ ~exited
    /\ orderScan # NoScan
    /\ \E r \in {freeOrderListenerStep(Cur, orderScan)} :
          /\ Commit(r.st)
          /\ orderScan' = r.scan
          /\ seedHist' = IF orderScan.seeding
                         THEN [seedHist EXCEPT !.attempts = @ + Len(r.st.attempts)]
                         ELSE seedHist
    /\ UNCHANGED <<seedPos, stageScan, exited>>
    /\ Static

\* freeStageListener resumed after an await: its next loop iteration
freeStageListenerResume ==
    /\ ~exited
    /\ stageScan # NoScan
    /\ \E r \in {freeStageListenerStep(Cur, stageScan)} :
          /\ Commit(r.st)
          /\ stageScan' = r.scan
    /\ UNCHANGED <<seedPos, orderScan, seedHist, exited>>
    /\ Static

\* The callback given to setTimeout in attemptToProcess, for the timer t that
\* is due first: order.postProcess() then prepStage.postProcess().  The
\* callback is an async function, so an Error thrown by order.postProcess()
\* skips the rest of it and becomes an unhandled promise rejection, on which
\* the runtime either ends the process or only warns and goes on.
timerCallback(t) ==
    /\ ~exited
    /\ t \in timers
    /\ \A u \in timers : t.due <= u.due
    /\ orderScan = NoScan /\ stageScan = NoScan
    /\ seedPos > ordersSize
    /\ \E r1 \in {Rev_OrderPostProcess(
                       [Cur EXCEPT !.now = t.due, !.timers = @ \ {t}],
                       t.order, t.prep)} :
       \E r2 \in {PrepPostProcess(r1.st, t.order, t.prep)} :
          IF r1.st.threw
          THEN /\ Commit(r1.st) /\ orderScan' = NoScan /\ stageScan' = NoScan
               /\ exited' \in BOOLEAN
          ELSE /\ Commit(r2.st) /\ orderScan' = r1.scan /\ stageScan' = r2.scan
               /\ exited' = exited
    /\ UNCHANGED <<seedPos, seedHist>>
    /\ Static

Next ==
    \/ initOrderProcessing
    \/ freeOrderListenerResume
    \/ freeStageListenerResume
    \/ \E t \in timers : timerCallback(t)

Spec == Init /\ [][Next]_vars

\* The sampled toppings counts, alike for all orders in a batch larger than
\* FullRangeOrders
AttemptToppings(n) ==
    IF n <= FullRangeOrders THEN [1..n -> SampleToppings]
    ELSE {[o \in 1..n |-> c] : c \in SampleToppings}

\* The event loop runs every pending continuation and every pending timer
\* callback: a step that can be taken is taken.
InitLive ==
    /\ \E n \in 1..(FullRangeOrders + 1) :
          /\ Fresh(n)
          /\ toppingsCount \in AttemptToppings(n)
    /\ revision = "part_000"
    /\ probe = NoProbe

SpecLive == InitLive /\ [][Next]_vars /\ WF_vars(Next)

\* ---- part_000 and part_001 side by side ----

InitVariants ==
    /\ \E n \in 1..MaxOrders :
          /\ Fresh(n)
          /\ toppingsCount \in [1..n -> ToppingsChoices(n)]
    /\ revision \in {"part_000", "part_001"}
    /\ probe = NoProbe

SpecVariants == InitVariants /\ [][Next]_vars

\* ---- script.js ----

\* The toppings drawn for script.js's 14 orders: all alike, of a count that
\* keeps the three topping workers busy past the next dough completions.
ScriptSampleToppings == {12, 13}

ScriptToppings ==
    {[o \in 1..ScriptOrderCount |-> c] : c \in ScriptSampleToppings}

InitScript ==
    /\ Fresh(ScriptOrderCount)
    /\ toppingsCount \in ScriptToppings
    /\ revision = "script.js"
    /\ probe = NoProbe

SpecScript == InitScript /\ [][Next]_vars

\* ---- attemptToProcess called on any order and worker ----

\* Batches of part_000 on which attemptToProcess is also called directly
InitAttempt ==
    /\ \E n \in 1..(FullRangeOrders + 1) :
          /\ Fresh(n)
          /\ toppingsCount \in AttemptToppings(n)
    /\ revision = "part_000"
    /\ probe = NoProbe

\* attemptToProcess(order, prepStage) called on an order and a worker of the
\* caller's choice, in whatever state the run is in
callAttemptToProcess(o, p) ==
    /\ ~exited
    /\ LET r == attemptToProcess(Cur, o, p)
       IN Commit(r.st)
    /\ UNCHANGED <<seedPos, orderScan, stageScan, seedHist, exited>>
    /\ Static

NextAttempt ==
    \/ Next
    \/ \E o \in OrderIds, p \in Preps : callAttemptToProcess(o, p)

SpecAttempt == InitAttempt /\ [][NextAttempt]_vars

\* ---- part_000 on a batch that queues at the topping stage ----

\* Order 1 draws any of the sampled counts; the others draw the largest count,
\* which keeps the topping workers busy while the last order arrives.
QueueToppings ==
    {[o \in 1..QueueOrders |-> IF o = 1 THEN c ELSE MAX_TOPPINGS_COUNT - 1] :
        c \in SampleToppings}

InitQueue ==
    /\ Fresh(QueueOrders)
    /\ toppingsCount \in QueueToppings
    /\ revision = "part_000"
    /\ probe = NoProbe

SpecQueue == InitQueue /\ [][Next]_vars

\* ---- getNextStage called on its own ----

InitSuccessor ==
    /\ Fresh(1)
    /\ toppingsCount = [o \in 1..1 |-> 0]
    /\ revision = "part_000"
    /\ \E a \in 0..MaxProbeArg : probe = [NoProbe EXCEPT !.arg = a]

\* PrepStage.getNextStage(probe.arg), its result or its throw noted in probe
callGetNextStage ==
    /\ ~probe.called
    /\ LET r == getNextStage(probe.arg)
       IN probe' = [arg |-> probe.arg, called |-> TRUE, throws |-> r.throws,
                    value |-> IF r.throws THEN 0 ELSE r.value]
    /\ UNCHANGED <<ordersSize, toppingsCount, startTime, stage, ready, pready,
                   orders, timers, timerSeq, now, log, seedPos, orderScan,
                   stageScan, attempts, trig, thrown, exited, seedHist, revision>>

NextSuccessor == callGetNextStage

SpecSuccessor == InitSuccessor /\ [][NextSuccessor]_vars

\* ---- properties ----

\* Nothing is pending: seeding is over, no scan is suspended, no timer is set.
Quiescent ==
    /\ seedPos > ordersSize
    /\ orderScan = NoScan /\ stageScan = NoScan
    /\ timers = {}

AllDone == \A o \in OrderIds : stage[o] = DONE

Count(type) == Cardinality({i \in DOMAIN log : log[i].type = type})

\* C1 Mutual exclusion: an active pairing is a pending timer; no two active
\* pairings share their order and no two share their worker.
C1_MutualExclusion ==
    \A t, u \in timers : t # u => t.order # u.order /\ t.prep # u.prep

C1_Witness == Cardinality(timers) >= 3 /\ now > 0

\* C2 Liveness, in the form a finite run refutes: once nothing is pending any
\* more (every timer has fired), every order has reached DONE.
C2_AllOrdersReachDone == Quiescent => AllDone

\* C3 Registry consistency: every order is filed in exactly the bucket of its
\* current stage, DONE included.
C3_RegistryConsistent ==
    \A o \in OrderIds : \A s \in StageTypes : (o \in orders[s]) <=> (s = stage[o])

C3_Witness ==
    /\ \E o \in OrderIds : stage[o] = DONE
    /\ \E o \in OrderIds : stage[o] = OVEN
    /\ \E o \in OrderIds : stage[o] = TOPPINGCHEF

\* C4 Conservation: the bucket sizes sum to ordersSize.
C4_Conservation == SumCard(orders, StageTypes) = ordersSize

C4_Witness ==
    /\ ordersSize >= 3
    /\ Cardinality(orders[DONE]) >= 2
    /\ Cardinality(orders[DONE]) < ordersSize

StageSequence == <<DOUGHCHEF, TOPPINGCHEF, OVEN, WAITER, DONE>>

\* C5 Stage monotonicity: a step that changes an order's stage completes
\* exactly one timer, that timer is the order's, the order was busy, and the
\* new stage is the immediate successor of the old one.
C5_StageMonotone ==
    [][\A o \in OrderIds : stage'[o] # stage[o] =>
          /\ \E k \in 1..4 : /\ stage[o] = StageSequence[k]
                             /\ stage'[o] = StageSequence[k + 1]
          /\ ~ready[o]
          /\ \E t \in timers : t.order = o /\ timers \ timers' = {t}]_vars

C5_Witness == \E o \in OrderIds : stage[o] = WAITER /\ ~ready[o]

\* C6 Completion idempotence: the all-done signal is never emitted twice,
\* never while an order is short of DONE, is there as soon as every order is
\* DONE, directly follows a 'done' event, and every finished run has emitted it.
C6_AllDoneExactlyOnce ==
    /\ Count("alldone") <= 1
    /\ Count("alldone") = 1 <=> AllDone
    /\ \A i \in DOMAIN log : log[i].type = "alldone" =>
          i > 1 /\ log[i - 1].type = "done"
    /\ Quiescent => Count("alldone") = 1

C7_Units(s, c) ==
    CASE s = DOUGHCHEF -> 7
      [] s = TOPPINGCHEF -> CeilHalf(4 * c)
      [] s = OVEN -> 10
      [] s = WAITER -> 5

\* C7 Duration formula: a scheduled timer runs 7, 10, 5 units at the dough,
\* oven and waiter stages and ceil(4 * C / 2) units at the topping stage; the
\* 'started' events report the same durations.
C7_DurationFormula ==
    /\ \A t \in timers :
          t.delay = MsPerSecond * C7_Units(t.prep[1], toppingsCount[t.order])
    /\ \A i \in DOMAIN log : log[i].type = "started" =>
          log[i].time = MsPerSecond * C7_Units(log[i].prep[1],
                                               toppingsCount[log[i].order])

C7_Witness ==
    /\ \E t \in timers : t.prep[1] = TOPPINGCHEF /\ toppingsCount[t.order] = 13
    /\ \E t \in timers : t.prep[1] = OVEN

\* C8 Zero-duration pairing: an attempt on a free order without toppings and a
\* free topping worker at the order's stage resolves to false, schedules no
\* timer and leaves both marked free.
C8_ZeroDurationNotStarted ==
    \A i \in DOMAIN attempts :
       LET a == attempts[i]
       IN (/\ a.prep[1] = TOPPINGCHEF /\ a.orderStage = TOPPINGCHEF
           /\ toppingsCount[a.order] = 0
           /\ a.orderReadyBefore /\ a.prepReadyBefore)
          => (/\ a.ret = "false" /\ ~a.scheduled
              /\ a.orderReadyAfter /\ a.prepReadyAfter
              /\ \A t \in timers : t.order # a.order)

C8_Witness ==
    \E i \in DOMAIN attempts :
       /\ attempts[i].prep[1] = TOPPINGCHEF /\ attempts[i].orderStage = TOPPINGCHEF
       /\ toppingsCount[attempts[i].order] = 0
       /\ attempts[i].orderReadyBefore /\ attempts[i].prepReadyBefore

C9_WorkerCount == <<2, 3, 1, 2>>

ActiveAt(s) == {t \in timers : t.prep[1] = s}

\* C9 Capacity: a stage never has more active pairings than workers, and a
\* step starts an oven pairing only if it leaves no earlier oven pairing active.
C9_StageCapacity ==
    /\ [](\A s \in PrepStages : Cardinality(ActiveAt(s)) <= C9_WorkerCount[s])
    /\ [][\A t \in timers' \ timers : t.prep[1] = OVEN =>
             \A u \in ActiveAt(OVEN) : u \notin timers']_vars

C9_Witness ==
    \E o1, o2, o3 \in OrderIds :
       /\ o1 # o2
       /\ stage[o1] = OVEN /\ stage[o2] = OVEN /\ stage[o3] = OVEN
       /\ ready[o1] /\ ready[o2] /\ ~ready[o3]
       /\ toppingsCount[o1] > 0

C10_Expected ==
    << <<"started", 1, DOUGHCHEF, 7 * MsPerSecond>>,
       <<"started", 1, TOPPINGCHEF, 8 * MsPerSecond>>,
       <<"started", 1, OVEN, 10 * MsPerSecond>>,
       <<"started", 1, WAITER, 5 * MsPerSecond>>,
       <<"done", 1, 0, 30 * MsPerSecond>>,
       <<"alldone", 0, 0, 0>> >>

C10_Seen ==
    [i \in DOMAIN log |->
        <<log[i].type, log[i].order, log[i].prep[1],
          IF log[i].type = "alldone" THEN 0 ELSE log[i].time>>]

\* C10 End-to-end scenario: one order with 4 toppings logs exactly the four
\* pairings of 7, 8, 10 and 5 units, its 'done' event at 30 units and the
\* all-done signal, the last two in one step.
C10_EndToEnd ==
    (ordersSize = 1 /\ toppingsCount[1] = 4) =>
       /\ \E k \in {0, 1, 2, 3, 4, 6} : C10_Seen = SubSeq(C10_Expected, 1, k)
       /\ Quiescent => Len(log) = 6

C10_Witness ==
    ordersSize = 1 /\ toppingsCount[1] = 4 /\ Quiescent /\ Len(log) = 6

Events(name) == {i \in DOMAIN trig : trig[i].event = name}

\* C11 as claimed: whenever a completion fires either trigger, it has already
\* marked both the order and the worker of the finished pairing ready.
C11_BothFreeBeforeEitherTrigger ==
    \A i \in DOMAIN trig : trig[i].orderFreed /\ trig[i].prepFreed

\* C11 as amended: the order is marked ready before FREEORDER fires and both
\* parties are marked ready before FREESTAGE fires; the worker is still marked
\* not ready while FREEORDER fires.
C11_FreeBeforeOwnTrigger ==
    /\ \A i \in Events("free_order") :
          /\ trig[i].orderFreed /\ trig[i].orderReady
          /\ ~trig[i].prepFreed /\ ~trig[i].prepReady
    /\ \A i \in Events("free_stage") :
          /\ trig[i].orderFreed
          /\ trig[i].prepFreed /\ trig[i].prepReady

C11_Witness ==
    /\ Events("free_order") # {}
    /\ \E i \in Events("free_stage") : ~trig[i].orderReady

\* C12 Started result stops the scan: an attempt that starts a pairing resolves
\* to a truthy value, and no listener invocation calls attemptToProcess again
\* after it has started a pairing.
C12_StartedStopsScan ==
    \A i \in DOMAIN attempts :
       /\ attempts[i].scheduled => Truthy(attempts[i].ret)
       /\ attempts[i].startedBefore = 0

\* C13 At most one pairing per trigger: no invocation of a listener starts a
\* pairing after it has started one, however the two scans interleave.
C13_OnePairingPerInvocation ==
    /\ \A i \in DOMAIN attempts :
          attempts[i].scheduled => attempts[i].startedBefore = 0
    /\ orderScan # NoScan => orderScan.started <= 1
    /\ stageScan # NoScan => stageScan.started <= 1

C13_Witness ==
    /\ orderScan # NoScan /\ stageScan # NoScan
    /\ orderScan.started = 1 /\ stageScan.started = 1
    /\ \E i \in DOMAIN attempts : attempts[i].startedBefore = 1

\* C14 Done is terminal: nothing is ever thrown; an order at DONE is ready, in
\* no pairing and in no attempt, the FREEORDER emit for it leaves no scan and
\* no attempt on it, and its stage stays DONE.
C14_DoneIsTerminal ==
    /\ [](/\ ~thrown
          /\ \A o \in OrderIds : stage[o] = DONE =>
                /\ ready[o]
                /\ \A t \in timers : t.order # o
                /\ \A i \in DOMAIN attempts : attempts[i].order # o
          /\ \A i \in Events("free_order") : stage[trig[i].order] = DONE =>
                orderScan = NoScan)
    /\ [][\A o \in OrderIds : stage[o] = DONE => stage'[o] = DONE]_vars

C14_Witness ==
    /\ \E i \in Events("free_order") : stage[trig[i].order] = DONE
    /\ \E o \in OrderIds : stage[o] = OVEN /\ ~ready[o]

\* C20 Busy flags match pairings: an order, and a worker, is marked not ready
\* exactly while a pending timer names it, and the pending timers, the busy
\* workers and the busy orders are equally many, 8 at most.
C20_BusyIffPaired ==
    /\ \A o \in OrderIds : ~ready[o] <=> \E t \in timers : t.order = o
    /\ \A p \in Preps : ~pready[p] <=> \E t \in timers : t.prep = p
    /\ Cardinality(timers) = Cardinality({p \in Preps : ~pready[p]})
    /\ Cardinality(timers) = Cardinality({o \in OrderIds : ~ready[o]})
    /\ Cardinality(timers) <= 8

C20_Witness ==
    /\ Cardinality(timers) = 4
    /\ \E t \in timers : t.prep[1] = OVEN
    /\ \E t \in timers : t.prep[1] = DOUGHCHEF

\* C15 Successor function: getNextStage returns TOPPINGCHEF, OVEN, WAITER, DONE
\* for DOUGHCHEF, TOPPINGCHEF, OVEN, WAITER and throws for DONE and for every
\* other argument.
C15_SuccessorFunction ==
    probe.called =>
       CASE probe.arg = DOUGHCHEF -> ~probe.throws /\ probe.value = TOPPINGCHEF
         [] probe.arg = TOPPINGCHEF -> ~probe.throws /\ probe.value = OVEN
         [] probe.arg = OVEN -> ~probe.throws /\ probe.value = WAITER
         [] probe.arg = WAITER -> ~probe.throws /\ probe.value = DONE
         [] OTHER -> probe.throws

C15_Witness ==
    probe.called /\ probe.arg = DONE /\ probe.throws

\* Timer callbacks that have run so far
Completions == timerSeq - Cardinality(timers)

SeedingUnfinished ==
    \/ Len(seedHist.calls) < ordersSize
    \/ orderScan # NoScan /\ orderScan.seeding

\* C18 Seeding before completions: initOrderProcessing calls freeOrderListener
\* for the orders 1, 2, ... once each, no timer callback runs before the call
\* for the last order has ended, and the pass makes at most ordersSize * 2
\* attempts (2 dough workers).
C18_SeedingBeforeCompletions ==
    /\ Len(seedHist.calls) <= ordersSize
    /\ seedHist.calls = [i \in 1..Len(seedHist.calls) |-> i]
    /\ SeedingUnfinished => Completions = 0 /\ now = 0
    /\ Completions > 0 => Len(seedHist.calls) = ordersSize
    /\ seedHist.attempts <= ordersSize * 2

C18_Witness ==
    /\ ordersSize = 4
    /\ Completions > 0
    /\ seedHist.calls = <<1, 2, 3, 4>>
    /\ seedHist.attempts = 8

\* C19 The zero-time return is equivalent to an immediate timer: in part_000 as
\* in part_001, once nothing is left to run every order, whatever its toppings
\* count, is at DONE and the all-done line has been logged once.
C19_VariantsEquivalent ==
    \A rev \in {"part_000", "part_001"} :
       (revision = rev /\ Quiescent) => (AllDone /\ Count("alldone") = 1)

\* C16 No dead transition in script.js: the timer callback of an oven pairing
\* leaves the order at WAITER and fires FREESTAGE for the oven, marked ready.
C16_OvenCompletionAdvances ==
    [][\A t \in timers :
          (t.prep[1] = OVEN /\ t \notin timers') =>
             /\ stage'[t.order] = WAITER
             /\ \E i \in DOMAIN trig' :
                   /\ trig'[i].event = "free_stage"
                   /\ trig'[i].prep = t.prep
                   /\ trig'[i].prepReady]_vars

\* Stages whose workers script.js's worker-freed scan is said to serve
ScannedStages == {TOPPINGCHEF, OVEN, WAITER}

\* C17 Worker-freed scan in script.js: once the scans of a completion have
\* ended, no stage after the dough stage has both a free worker and a free order
\* waiting at it (nothing having been thrown so far).
C17_FreedWorkerServesWaiting ==
    (/\ seedPos > ordersSize
     /\ orderScan = NoScan /\ stageScan = NoScan
     /\ ~thrown) =>
       \A s \in ScannedStages :
          ~(/\ \E i \in DOMAIN allPreps(s) : pready[allPreps(s)[i]]
            /\ \E o \in OrderIds : stage[o] = s /\ ready[o])

\* No listener scan in progress and seeding over
ScansEnded ==
    /\ seedPos > ordersSize
    /\ orderScan = NoScan /\ stageScan = NoScan

\* Orders that are ready at stage s and whose computed duration there is not 0
Waiting(s) ==
    {o \in OrderIds : /\ stage[o] = s /\ ready[o]
                      /\ calculateProcessingTime(s, o) # 0}

FreeWorkers(s) == {p \in Preps : p[1] = s /\ pready[p]}

\* C21 No lost wake-up: whenever no scan is in progress, no stage has both a
\* free worker and a free order of non-zero duration at it; and every timer
\* callback fires FREESTAGE for its worker, also when its order reached DONE.
C21_NoLostWakeup ==
    /\ [](ScansEnded =>
            \A s \in PrepStages : FreeWorkers(s) = {} \/ Waiting(s) = {})
    /\ [][\A t \in timers :
             t \notin timers' =>
                \E i \in DOMAIN trig' :
                   /\ trig'[i].event = "free_stage"
                   /\ trig'[i].prep = t.prep]_vars

\* A waiter's completion has just fired FREESTAGE for an order now at DONE,
\* while another order waits for the busy oven.
C21_Witness ==
    /\ ScansEnded
    /\ \E i \in Events("free_stage") : stage[trig[i].order] = DONE
    /\ Waiting(OVEN) # {}
    /\ FreeWorkers(OVEN) = {}

\* An attempt whose order was not ready, or whose worker was not ready, or
\* whose order and worker were at different stages
Ineligible(a) ==
    \/ ~a.orderReadyBefore
    \/ ~a.prepReadyBefore
    \/ a.orderStage # a.prep[1]

\* C22 Failed eligibility check changes nothing: such a call of attemptToProcess
\* returns false and schedules no timer, and a step that makes only such calls
\* leaves every ready flag, every stage, every bucket and the timers as they
\* were.
C22_FailedCheckChangesNothing ==
    /\ [](\A i \in DOMAIN attempts :
             Ineligible(attempts[i]) =>
                /\ attempts[i].ret = "false"
                /\ ~attempts[i].scheduled
                /\ attempts[i].frame)
    /\ [][(/\ attempts' # <<>>
           /\ trig' = <<>>
           /\ \A i \in DOMAIN attempts' : Ineligible(attempts'[i])) =>
             UNCHANGED <<ready, pready, stage, orders, timers, timerSeq>>]_vars

\* The three ways of failing the check, the third with both parties ready
C22_Witness ==
    \E i \in DOMAIN attempts :
       /\ attempts[i].orderReadyBefore /\ attempts[i].prepReadyBefore
       /\ attempts[i].orderStage # attempts[i].prep[1]
       /\ attempts[i].ret = "false"
       /\ \E o \in OrderIds : ~ready[o]
       /\ \E q \in Preps : ~pready[q]

\* The attempt attempts'[i] of a step was made by freeStageListener: by the
\* scan of a worker resumed in this step, or on the worker whose timer the step
\* has completed.
ByWorkerScan(i) ==
    \/ stageScan # NoScan /\ stageScan' # stageScan
    \/ \E t \in timers \ timers' : attempts'[i].prep = t.prep

\* Orders in the bucket of stage s that passed the eligibility check when the
\* worker's scan paired order o: the ready ones, and o itself
EligibleOrders(s, o) ==
    {x \in orders'[s] : stage'[x] = s /\ (ready'[x] \/ x = o)}

\* Indexes of the workers of stage s that were free when p was paired
FreeIndexes(s, p) ==
    {q[2] : q \in {w \in Preps : w[1] = s /\ (pready'[w] \/ w = p)}}

AllWorkersFree == \A p \in Preps : pready[p]

\* C24 Quiescent termination: a run with N orders completes at most 4 * N
\* timers (one per order and stage) and then stays in a state with no pending
\* timer, no scan in progress and every worker marked free, whether or not
\* every order is at DONE.
C24_QuiescentTermination ==
    /\ [](Completions <= Cardinality(PrepStages) * ordersSize)
    /\ [](Quiescent => AllWorkersFree)
    /\ <>[](Quiescent /\ AllWorkersFree)

\* A run that has ended with an order short of DONE and no all-done line
C24_Witness ==
    /\ Quiescent /\ AllWorkersFree
    /\ Completions > 0
    /\ ~AllDone /\ Count("alldone") = 0
    /\ \E o \in OrderIds : stage[o] = DONE

====
